---- MODULE Spec2Model ----
(***************************************************************************)
(* VIN decoder (src/vin_decoder.py): validate_vin, decode_vin and          *)
(* get_forensic_summary as operators over strings, and a state machine     *)
(* that draws an input string and applies the three operations to it.      *)
(*                                                                         *)
(* A string is a sequence of characters; a character is a one-character    *)
(* TLA+ string, except the two non-ASCII characters the model carries,     *)
(* which are written by their code points: "U+00DF" is the German sharp s  *)
(* (its upper-casing is the two characters "SS") and "U+017F" is the long  *)
(* s (its upper-casing is "S").  "\n" is the line feed.                    *)
(***************************************************************************)
EXTENDS Integers, Sequences, FiniteSets, TLC

VARIABLES vin, pc, validated, info, raised, info2, report

vars == <<vin, pc, validated, info, raised, info2, report>>

---------------------------------------------------------------------------
(* Characters                                                              *)

Digits == {"0", "1", "2", "3", "4", "5", "6", "7", "8", "9"}

UpperLetters ==
  {"A", "B", "C", "D", "E", "F", "G", "H", "I", "J", "K", "L", "M",
   "N", "O", "P", "Q", "R", "S", "T", "U", "V", "W", "X", "Y", "Z"}

\* str.upper() on one character: a sequence of characters.
UpperTable ==
  [a |-> <<"A">>, b |-> <<"B">>, c |-> <<"C">>, d |-> <<"D">>, e |-> <<"E">>,
   f |-> <<"F">>, g |-> <<"G">>, h |-> <<"H">>, i |-> <<"I">>, j |-> <<"J">>,
   k |-> <<"K">>, l |-> <<"L">>, m |-> <<"M">>, n |-> <<"N">>, o |-> <<"O">>,
   p |-> <<"P">>, q |-> <<"Q">>, r |-> <<"R">>, s |-> <<"S">>, t |-> <<"T">>,
   u |-> <<"U">>, v |-> <<"V">>, w |-> <<"W">>, x |-> <<"X">>, y |-> <<"Y">>,
   z |-> <<"Z">>] @@ ("U+00DF" :> <<"S", "S">>) @@ ("U+017F" :> <<"S">>)

UpperChar(c) == IF c \in DOMAIN UpperTable THEN UpperTable[c] ELSE <<c>>

\* vin.upper()
RECURSIVE StrUpper(_)
StrUpper(s) == IF s = <<>> THEN <<>> ELSE UpperChar(Head(s)) \o StrUpper(Tail(s))

\* the characters of a string joined into one TLA+ string (for messages)
RECURSIVE Join(_)
Join(s) == IF s = <<>> THEN "" ELSE Head(s) \o Join(Tail(s))

\* s[a:b] of Python, 0-based, end exclusive, clipped to the string
Slice(s, a, b) == SubSeq(s, a + 1, IF b < Len(s) THEN b ELSE Len(s))

\* s.startswith(p)
StartsWith(s, p) == Len(s) >= Len(p) /\ SubSeq(s, 1, Len(p)) = p

\* needle in hay, on strings
Contains(hay, needle) ==
  \E k \in 0..(Len(hay) - Len(needle)) : SubSeq(hay, k + 1, k + Len(needle)) = needle

---------------------------------------------------------------------------
(* VINDecoder                                                              *)

VinLen == 17

PatternClassWithI == (UpperLetters \ {"O", "Q"}) \cup Digits

\* the character class [A-HJ-NPR-Z0-9]
PatternClass == (UpperLetters \ {"I", "O", "Q"}) \cup Digits

\* re.compile(r'^[A-HJ-NPR-Z0-9]{17}$').match(u): seventeen characters of the
\* class, then the end of the string or a line feed that ends the string.
vin_pattern_match(u) ==
  /\ Len(u) >= VinLen
  /\ \A k \in 1..VinLen : u[k] \in PatternClass
  /\ \/ Len(u) = VinLen
     \/ Len(u) = VinLen + 1 /\ u[VinLen + 1] = "\n"

MANUFACTURERS ==
  ("KM8" :> "Hyundai Motor Company") @@ ("1G1" :> "General Motors")
    @@ ("JHM" :> "Honda") @@ ("WBA" :> "BMW")

MODEL_YEARS_to_2024 == [L |-> 2020, M |-> 2021, N |-> 2022, P |-> 2023, R |-> 2024]

MODEL_YEARS == [L |-> 2020, M |-> 2021, N |-> 2022, P |-> 2023, R |-> 2024, S |-> 2025]

EmptyMsg == "VIN cannot be empty"
LengthMsg(n) == "VIN must be " \o ToString(VinLen) \o " characters, got " \o ToString(n)
CharsMsg == "VIN contains invalid characters (I, O, Q not allowed)"
CheckDigitMsg == "Invalid VIN check digit"
YearMsg(code) == "Unknown model year code: " \o code

validate_check_digit(v) == TRUE

\* validate_vin with the length check written as len(vin) < 17
validate_vin_short_only(v) ==
  IF v = <<>>
  THEN [is_valid |-> FALSE, errors |-> <<EmptyMsg>>]
  ELSE LET e1 == IF Len(v) < VinLen THEN <<LengthMsg(Len(v))>> ELSE <<>>
           e2 == IF ~vin_pattern_match(StrUpper(v)) THEN <<CharsMsg>> ELSE <<>>
           errors == e1 \o e2
       IN [is_valid |-> Len(errors) = 0, errors |-> errors]

validate_vin(v) ==
  IF v = <<>>
  THEN [is_valid |-> FALSE, errors |-> <<EmptyMsg>>]
  ELSE LET e1 == IF Len(v) # VinLen THEN <<LengthMsg(Len(v))>> ELSE <<>>
           e2 == IF ~vin_pattern_match(StrUpper(v)) THEN <<CharsMsg>> ELSE <<>>
           e3 == IF Len(v) = VinLen /\ ~validate_check_digit(v)
                 THEN <<CheckDigitMsg>> ELSE <<>>
           errors == e1 \o e2 \o e3
       IN [is_valid |-> Len(errors) = 0, errors |-> errors]

\* the characters of the strings that occur as a vehicle type
StrChars ==
  ("Palisade SUV" :> <<"P","a","l","i","s","a","d","e"," ","S","U","V">>)
    @@ ("Hyundai Vehicle" :> <<"H","y","u","n","d","a","i"," ","V","e","h","i","c","l","e">>)
    @@ ("Unknown Vehicle Type" :>
          <<"U","n","k","n","o","w","n"," ","V","e","h","i","c","l","e"," ","T","y","p","e">>)
    @@ ("" :> <<>>)

\* determine_vehicle_type with the shorter prefix tested first
determine_vehicle_type_km8_first(v) ==
  IF StartsWith(v, <<"K","M","8">>) THEN "Hyundai Vehicle"
  ELSE IF StartsWith(v, <<"K","M","8","R","5","4","H","E">>) THEN "Palisade SUV"
  ELSE "Unknown Vehicle Type"

determine_vehicle_type(v) ==
  IF StartsWith(v, <<"K","M","8","R","5","4","H","E">>) THEN "Palisade SUV"
  ELSE IF StartsWith(v, <<"K","M","8">>) THEN "Hyundai Vehicle"
  ELSE "Unknown Vehicle Type"

\* decode_vin raises IndexError when vin[9] or vin[10] is out of range
decode_raises(v) == validate_vin(v).is_valid /\ Len(StrUpper(v)) < 11

\* the invalid record built with a fresh error list
InvalidInfoNoErrors(v, errors) ==
  [vin |-> v, manufacturer |-> "Unknown", model_year |-> 0, plant_code |-> "",
   vehicle_type |-> "", is_valid |-> FALSE, errors |-> <<>>]

\* the invalid record with the plant code read from the input all the same
InvalidInfoExtracts(v, errors) ==
  [vin |-> v, manufacturer |-> "Unknown", model_year |-> 0,
   plant_code |-> IF Len(v) >= 11 THEN v[11] ELSE "",
   vehicle_type |-> "", is_valid |-> FALSE, errors |-> errors]

\* the record decode_vin returns for an input validate_vin rejects
InvalidInfo(v, errors) ==
  [vin |-> v, manufacturer |-> "Unknown", model_year |-> 0, plant_code |-> "",
   vehicle_type |-> "", is_valid |-> FALSE, errors |-> errors]

decode_vin(v) ==
  LET val == validate_vin(v) IN
  IF ~val.is_valid
  THEN InvalidInfo(v, val.errors)
  ELSE LET u == StrUpper(v)
           wmi == Join(Slice(u, 0, 3))
           year_code == u[10]
           plant_code == u[11]
           manufacturer == IF wmi \in DOMAIN MANUFACTURERS THEN MANUFACTURERS[wmi]
                           ELSE "Unknown (" \o wmi \o ")"
           model_year == IF year_code \in DOMAIN MODEL_YEARS THEN MODEL_YEARS[year_code]
                         ELSE 0
           errors == IF model_year = 0 THEN val.errors \o <<YearMsg(year_code)>>
                     ELSE val.errors
       IN [vin |-> u, manufacturer |-> manufacturer, model_year |-> model_year,
           plant_code |-> plant_code, vehicle_type |-> determine_vehicle_type(u),
           is_valid |-> TRUE, errors |-> errors]

EmptyDict == [k \in {} |-> ""]

assess_legal_relevance(vin_info) ==
  IF Contains(StrChars[vin_info.vehicle_type], <<"P","a","l","i","s","a","d","e">>)
  THEN [known_issues |-> "Oil consumption defects documented in class action suits",
        warranty_status |-> "10-year powertrain warranty applicable",
        recall_potential |-> "Check NHTSA database for active recalls"]
  ELSE EmptyDict

get_forensic_summary(v) ==
  LET vin_info == decode_vin(v) IN
  [vin |-> vin_info.vin,
   manufacturer |-> vin_info.manufacturer,
   model_year |-> vin_info.model_year,
   vehicle_type |-> vin_info.vehicle_type,
   validation_status |-> IF vin_info.is_valid THEN "VALID" ELSE "INVALID",
   forensic_notes |->
     [wmi_code |-> Join(Slice(v, 0, 3)),
      plant_code |-> IF Len(v) >= 11 THEN v[11] ELSE "Unknown",
      serial_number |-> IF Len(v) >= 12 THEN Join(Slice(v, 11, Len(v))) ELSE "Unknown"],
   legal_relevance |-> assess_legal_relevance(vin_info)]

---------------------------------------------------------------------------
(* Input strings                                                           *)

\* longest run of characters appended after the (possibly truncated) base
MaxSuffix == 2

Bases ==
  { <<"K","M","8","R","5","4","H","E","1","L","U","0","6","6","8","0","8">>,
    <<"k","m","8","r","5","4","h","e","1","l","u","0","6","6","8","0","8">>,
    <<"K","M","8","J","3","C","A","4","6","N","U","1","2","3","4","5","6">>,
    <<"W","B","A","3","A","5","C","5","0","D","F","1","2","3","4","5","6">>,
    <<"j","h","m","C","M","5","6","5","5","R","C","4","0","4","4","5","3">>,
    <<"5","Y","J","3","E","1","E","A","7","p","F","0","0","0","0","0","1">> }

EditChars == {"I", "o", "q", "U+00DF", "U+017F", "\n", "-", "S"}

SuffixChars == {"\n", "7"}

RECURSIVE SeqsUpTo(_, _)
SeqsUpTo(S, n) ==
  IF n = 0 THEN {<<>>}
  ELSE LET shorter == SeqsUpTo(S, n - 1)
       IN shorter \cup {Append(t, c) : t \in {x \in shorter : Len(x) = n - 1}, c \in S}

\* a base cut to n characters, at most one character of it replaced, a suffix appended
Inputs ==
  LET Cut == {SubSeq(b, 1, n) : b \in Bases, n \in 0..VinLen}
      Edits(t) == {[t EXCEPT ![p] = c] : p \in 1..Len(t), c \in EditChars}
      Edited == Cut \cup UNION {Edits(t) : t \in Cut}
  IN {t \o s : t \in Edited, s \in SeqsUpTo(SuffixChars, MaxSuffix)}

---------------------------------------------------------------------------
(* The caller: one input string, and the operations applied to it          *)

NoValidation == [is_valid |-> FALSE, errors |-> <<>>]
NoInfo == InvalidInfo(<<>>, <<>>)
NoReport ==
  [vin |-> <<>>, manufacturer |-> "", model_year |-> 0, vehicle_type |-> "",
   validation_status |-> "",
   forensic_notes |-> [wmi_code |-> "", plant_code |-> "", serial_number |-> ""],
   legal_relevance |-> EmptyDict]

Init ==
  /\ vin \in Inputs
  /\ pc = "idle"
  /\ validated = NoValidation
  /\ info = NoInfo
  /\ raised = FALSE
  /\ info2 = NoInfo
  /\ report = NoReport

\* validate_vin(vin)
Validate ==
  /\ pc = "idle"
  /\ validated' = validate_vin(vin)
  /\ pc' = "validated"
  /\ UNCHANGED <<vin, info, raised, info2, report>>

\* decode_vin(vin)
Decode ==
  /\ pc = "idle"
  /\ raised' = decode_raises(vin)
  /\ info' = IF decode_raises(vin) THEN NoInfo ELSE decode_vin(vin)
  /\ pc' = "decoded"
  /\ UNCHANGED <<vin, validated, info2, report>>

\* decode_vin(decode_vin(vin).vin)
Redecode ==
  /\ pc = "decoded"
  /\ ~raised
  /\ info2' = decode_vin(info.vin)
  /\ pc' = "redecoded"
  /\ UNCHANGED <<vin, validated, info, raised, report>>

\* get_forensic_summary(vin)
Summary ==
  /\ pc = "idle"
  /\ ~decode_raises(vin)
  /\ report' = get_forensic_summary(vin)
  /\ pc' = "summarized"
  /\ UNCHANGED <<vin, validated, info, raised, info2>>

Next == Validate \/ Decode \/ Redecode \/ Summary

Spec == Init /\ [][Next]_vars

---------------------------------------------------------------------------
(* Properties                                                              *)

Chars(v) == {v[k] : k \in 1..Len(v)}

\* every character of v, upper-cased, is a digit or a letter other than I, O, Q
AllPermitted(v) ==
  \A k \in 1..Len(v) :
    \E d \in (UpperLetters \cup Digits) \ {"I", "O", "Q"} : UpperChar(v[k]) = <<d>>

Has(errors, msg) == \E k \in 1..Len(errors) : errors[k] = msg

\* C1: validate_vin returns is_valid = true exactly when its error list is
\* empty, and exactly when the string has 17 characters each of which,
\* upper-cased, is a digit or a letter other than I, O, Q.
C1_ValidIffWellFormed ==
  pc = "validated" =>
    /\ validated.is_valid <=> (validated.errors = <<>>)
    /\ validated.is_valid <=> (Len(vin) = VinLen /\ AllPermitted(vin))

\* C2 as stated: every record decode_vin returns has is_valid true if and only
\* if its errors list is empty.
C2_ValidIffNoErrors ==
  pc = "decoded" => (info.is_valid <=> (info.errors = <<>>))

YearMsgs == {"Unknown model year code: " \o c : c \in UpperLetters \cup Digits}

\* C2 amended: a record of decode_vin has is_valid false exactly when its
\* errors hold a validation message; a record with is_valid true has no error,
\* or, exactly when its model_year is 0, the single message "Unknown model
\* year code: <code>".
C2_ValidIffNoValidationErrors ==
  pc = "decoded" =>
    /\ info.is_valid <=> (\A k \in 1..Len(info.errors) : info.errors[k] \in YearMsgs)
    /\ info.is_valid => Len(info.errors) = (IF info.model_year = 0 THEN 1 ELSE 0)
    /\ (info.errors = <<>>) => info.is_valid

C2_Witness ==
  pc = "decoded" /\ info.is_valid /\ info.errors # <<>>

\* C3 as stated: for every string of length other than 17, the empty string
\* included, validate_vin returns is_valid = false and an error list holding
\* a message that reports the actual length.
C3_LengthReported ==
  (pc = "validated" /\ Len(vin) # VinLen) =>
    /\ ~validated.is_valid
    /\ Has(validated.errors, "VIN must be 17 characters, got " \o ToString(Len(vin)))

\* C3 amended: for every non-empty string of length other than 17,
\* validate_vin returns is_valid = false and an error list holding "VIN must
\* be 17 characters, got <length>"; for the empty string it returns is_valid =
\* false and exactly the one error "VIN cannot be empty".
C3_LengthReportedUnlessEmpty ==
  (pc = "validated" /\ Len(vin) # VinLen) =>
    /\ ~validated.is_valid
    /\ vin # <<>> =>
         Has(validated.errors, "VIN must be 17 characters, got " \o ToString(Len(vin)))
    /\ vin = <<>> => validated.errors = <<"VIN cannot be empty">>

C3_Witness ==
  pc = "validated" /\ Len(vin) > VinLen /\ ~validated.is_valid /\ Len(validated.errors) = 1

\* C4: for every string holding I, O or Q in either case at any position,
\* whatever its length, validate_vin returns is_valid = false and an error
\* list holding the invalid-characters message.
C4_IOQRejected ==
  (pc = "validated" /\ Chars(vin) \cap {"I", "O", "Q", "i", "o", "q"} # {}) =>
    /\ ~validated.is_valid
    /\ Has(validated.errors, "VIN contains invalid characters (I, O, Q not allowed)")

C4_Witness ==
  /\ pc = "validated"
  /\ Len(vin) = VinLen
  /\ Chars(vin) \cap {"I", "O", "Q", "i", "o", "q"} # {}
  /\ validated.errors = <<"VIN contains invalid characters (I, O, Q not allowed)">>

\* C5: for a non-empty string of length other than 17 whose characters all
\* belong to the permitted alphabet, the error list of validate_vin is exactly
\* the length-mismatch message; the invalid-characters message is appended
\* only when some character is outside the permitted alphabet.
C5_ChecksIndependent ==
  (pc = "validated" /\ vin # <<>>) =>
    /\ (Len(vin) # VinLen /\ AllPermitted(vin)) =>
         validated.errors = <<"VIN must be 17 characters, got " \o ToString(Len(vin))>>
    /\ Has(validated.errors, "VIN contains invalid characters (I, O, Q not allowed)") =>
         ~AllPermitted(vin)

\* C6: for every input, valid or invalid, the vin field of the record
\* decode_vin returns is the upper-cased input.
C6_VinUppercased ==
  pc = "decoded" => info.vin = StrUpper(vin)

\* C7: decode_vin(decode_vin(v).vin) equals decode_vin(v), field by field.
C7_DecodeIdempotent ==
  pc = "redecoded" => info2 = info

\* C8: decode_vin never raises; when validate_vin rejects the input the record
\* is manufacturer "Unknown", model_year 0, plant_code "", vehicle_type "",
\* is_valid false and the errors of validate_vin, nothing extracted from the
\* input; for the empty string the errors are exactly "VIN cannot be empty".
C8_InvalidYieldsPlaceholders ==
  pc = "decoded" =>
    /\ ~raised
    /\ ~validate_vin(vin).is_valid =>
         /\ info.manufacturer = "Unknown"
         /\ info.model_year = 0
         /\ info.plant_code = ""
         /\ info.vehicle_type = ""
         /\ info.is_valid = FALSE
         /\ info.errors = validate_vin(vin).errors
    /\ vin = <<>> => info.errors = <<"VIN cannot be empty">> /\ ~info.is_valid

C8_Witness ==
  pc = "decoded" /\ Len(vin) >= 11 /\ ~info.is_valid /\ info.plant_code = ""

YearOf(c) ==
  CASE c = "L" -> 2020 [] c = "M" -> 2021 [] c = "N" -> 2022
    [] c = "P" -> 2023 [] c = "R" -> 2024 [] c = "S" -> 2025 [] OTHER -> 0

MakerOf(w) ==
  CASE w = <<"K","M","8">> -> "Hyundai Motor Company"
    [] w = <<"1","G","1">> -> "General Motors"
    [] w = <<"J","H","M">> -> "Honda"
    [] w = <<"W","B","A">> -> "BMW"
    [] OTHER -> "Unknown (" \o w[1] \o w[2] \o w[3] \o ")"

\* C9: for every input validate_vin accepts, decode_vin resolves the character
\* at index 9 of the upper-cased input through the year table (L, M, N, P, R,
\* S -> 2020..2025); a character outside the table gives model_year 0 and
\* exactly one appended "Unknown model year code" error while is_valid stays
\* true; the manufacturer is resolved from the first three characters ("WBA"
\* -> "BMW", an unmapped code -> "Unknown (<code>)").
C9_YearAndMaker ==
  (pc = "decoded" /\ validate_vin(vin).is_valid) =>
    LET u == StrUpper(vin) IN
    /\ info.is_valid
    /\ info.model_year = YearOf(u[10])
    /\ info.errors = IF YearOf(u[10]) = 0
                     THEN <<"Unknown model year code: " \o u[10]>> ELSE <<>>
    /\ info.manufacturer = MakerOf(SubSeq(u, 1, 3))

C9_Witness ==
  /\ pc = "decoded"
  /\ info.is_valid
  /\ info.manufacturer = "BMW"
  /\ info.model_year = 0
  /\ info.errors = <<"Unknown model year code: D">>

\* C10: in the report of get_forensic_summary, legal_relevance is non-empty
\* exactly when the decoded vehicle type contains "Palisade", which is exactly
\* when validate_vin accepts the input and its upper-cased form starts with
\* "KM8R54HE"; legal_relevance is empty whenever validation_status is
\* "INVALID", and validation_status is "VALID" exactly when decode_vin reports
\* is_valid.
C10_LegalRelevance ==
  pc = "summarized" =>
    LET nonempty == DOMAIN report.legal_relevance # {} IN
    /\ nonempty <=> Contains(StrChars[report.vehicle_type], <<"P","a","l","i","s","a","d","e">>)
    /\ nonempty <=> /\ validate_vin(vin).is_valid
                    /\ SubSeq(StrUpper(vin), 1, 8) = <<"K","M","8","R","5","4","H","E">>
    /\ report.validation_status = "INVALID" => ~nonempty
    /\ report.validation_status \in {"VALID", "INVALID"}
    /\ report.validation_status = "VALID" <=> decode_vin(vin).is_valid

C10_Witness ==
  /\ pc = "summarized"
  /\ DOMAIN report.legal_relevance # {}
  /\ report.validation_status = "VALID"
  /\ vin[1] = "k"

====
